---- MODULE Spec2Model ----
(***************************************************************************)
(* Model of runtime/container_start.go: the create/start reconciler        *)
(* ContainerStart, its helper createContainer, and the lazily initialised  *)
(* docker root (getDockerRoot / dockerRootOnce).                           *)
(*                                                                         *)
(* Every goroutine that runs ContainerStart is a process p.  One action    *)
(* is one step of the function between two calls to the engine or to the   *)
(* volume backend; the outcome of such a call is drawn with \E.            *)
(***************************************************************************)
EXTENDS Integers, FiniteSets, Sequences, TLC

\* number of concurrently running ContainerStart calls
NumProcs == 2
\* number of goroutines calling getDockerRoot, and calls made by each
NumRootProcs == 3
MaxRootCalls == 2
\* longest list of volumes passed to a call
MaxVolumes == 2
\* number of keys an Environment map may have
MaxEnvKeys == 3
\* longest list of public endpoints
MaxEndpoints == 2
\* longest list of data-volume declarations
MaxDataVolumes == 2

Procs == 1..NumProcs
\* container specifications (uuid/name pairs); one derived name per spec
Specs == 1..NumProcs
RootProcs == 1..NumRootProcs

\* the empty container identifier ""
NoId == 0

VARIABLES
    pc,            \* position of each ContainerStart call
    specOf,        \* containerSpec argument (its uuid/name) of each call
    containerID,   \* local containerID
    created,       \* local created
    started,       \* local started (read by the deferred unwind)
    newID,         \* identifier returned by this call's createContainer
    containers,    \* engine: existing containers, records [id, spec]
    running,       \* engine: identifiers of started containers
    nextID,        \* engine: next identifier to assign
    serialize,     \* holder of the utils.Serialize region, 0 when free
    ret,           \* what each call returned
    hist,          \* per call: the engine / backend calls it has made
    rootPc,        \* position of each getDockerRoot caller
    onceDone,      \* dockerRootOnce: done flag
    onceM,         \* dockerRootOnce: mutex holder, 0 when free
    dockerRoot,    \* package variable dockerRoot
    rootRet,       \* values returned to each getDockerRoot caller
    infoCalls,     \* number of engine Info queries made
    infoOk,        \* the Info query succeeded
    volumes,       \* volumes argument of the call: records [name, rancher]
    volActive,     \* volume backend: whether each volume is active
    volIdx,        \* index of the volume the activation loop is at
    volLog,        \* volume backend calls made, in order
    environment,   \* containerSpec.Environment, a map
    specLabels,    \* containerSpec.Labels, a map
    configDone,    \* the translation runs that have finished
    config,        \* container.Config built by each translation run
    publicEndpoints, \* containerSpec.PublicEndpoints
    portIdx,       \* setupPorts: index of the endpoint the loop is at
    exposedPorts,  \* setupPorts: local exposedPorts
    bindings,      \* setupPorts: local bindings
    portConfig,    \* ExposedPorts and PortBindings once setupPorts returned
    dataVolumes,   \* containerSpec.DataVolumes
    bindIdx,       \* setupNonRancherVolumes: index of the declaration the loop is at
    binds,         \* setupNonRancherVolumes: local binds
    volumesMap,    \* setupNonRancherVolumes: local volumesMap
    yields,        \* the binds each declaration has appended
    bindConfig,    \* Volumes and Binds once the bind loop is over
    engineState,   \* engine: State.Running and State.Restarting of each container
    qPc,           \* position of the IsContainerStarted / isRunning call
    qCont,         \* its container identifier
    qSeen,         \* what the lookup and the inspection answered
    qRet           \* what it returned

startVars == <<pc, specOf, containerID, created, started, newID, containers,
               running, nextID, serialize, ret, hist>>
rootVars == <<rootPc, onceDone, onceM, dockerRoot, rootRet, infoCalls, infoOk>>
volVars == <<volumes, volActive, volIdx, volLog>>
envVars == <<environment, specLabels, configDone, config>>
portVars == <<publicEndpoints, portIdx, exposedPorts, bindings, portConfig>>
bindVars == <<dataVolumes, bindIdx, binds, volumesMap, yields, bindConfig>>
queryVars == <<engineState, qPc, qCont, qSeen, qRet>>
auxVars == <<volVars, envVars, portVars, bindVars, queryVars>>
vars == <<pc, specOf, containerID, created, started, newID, containers,
          running, nextID, serialize, ret, hist,
          rootPc, onceDone, onceM, dockerRoot, rootRet, infoCalls, infoOk,
          volumes, volActive, volIdx, volLog,
          environment, specLabels, configDone, config,
          publicEndpoints, portIdx, exposedPorts, bindings, portConfig,
          dataVolumes, bindIdx, binds, volumesMap, yields, bindConfig,
          engineState, qPc, qCont, qSeen, qRet>>

----------------------------------------------------------------------------
(* Engine (container runtime client) as seen by this file. *)

\* identifiers of the containers that carry the derived name of spec s
IdsOf(s) == {c.id : c \in {d \in containers : d.spec = s}}

Exists(id) == \E c \in containers : c.id = id

\* utils.FindContainer: the identifier found, "" with not-found, or another error
FindOutcomes(s) ==
    (IF IdsOf(s) = {} THEN {[id |-> NoId, err |-> "notfound"]}
                      ELSE {[id |-> i, err |-> "none"] : i \in IdsOf(s)})
    \cup {[id |-> NoId, err |-> "other"]}

\* dockerContainerCreate: the engine refuses a name that is bound already
CreateOutcomes(s) ==
    (IF IdsOf(s) = {} THEN {"none"} ELSE {"nameInUse"})
    \cup {"imageNotFound", "other"}

\* utils.RemoveContainer: removes the container, or fails
RemoveOutcomes(id) == {"none", "other"}

\* runtimeClient.ContainerStart: only an existing container can be started
StartOutcomes(id) == (IF Exists(id) THEN {"none"} ELSE {}) \cup {"other"}

----------------------------------------------------------------------------
(* Decisions taken by ContainerStart and createContainer. *)

\* variant: every lookup failure is taken for not-found
IsFatalFindErr_Never(err) == FALSE

\* err != nil && !utils.IsContainerNotFoundError(err)
IsFatalFindErr(err) == err # "none" /\ err # "notfound"

\* variant: the name-in-use error is not told apart from other create errors
IsFatalCreateErr_NameInUseToo(err) == err # "none"

\* err != nil && !strings.Contains(err.Error(), nameInuseError)
IsFatalCreateErr(err) == err # "none" /\ err # "nameInUse"

\* variant: the create branch is entered whatever the lookup found
NeedsCreate_Always(id) == TRUE

\* if containerID == "" { ... create ... }
NeedsCreate(id) == id = NoId

\* created = true, at the end of the create branch
CreatedAfterCreateBranch(nid) == TRUE

\* variant: a failed start leaves the created container behind
RemovesOnStartFailure_Never(c) == FALSE

\* if startErr != nil { if created { RemoveContainer } }
RemovesOnStartFailure(c) == c

\* variant: image-not-found is returned like any other create error
PullsOnDemand_Never(err) == FALSE

\* variant: the always-pull label is not looked at
PullsAlways_Never(label) == FALSE

\* labels[PullImageLabels] == "always"
PullsAlways(label) == label = "always"

\* variant: the external id is not looked at
HasExternalId_Never(ext) == FALSE

\* containerSpec.ExternalId != ""
HasExternalId(ext) == ext # ""

\* client.IsErrImageNotFound(err) on the first create
PullsOnDemand(err) == err = "imageNotFound"

\* utils.Serialize admits one caller at a time
SerializeFree(holder) == holder = 0

\* defer func() { if !started { unmountRancherFlexVolume(volumes) } }()
Unwinds(st) == ~st

EmptyHist == [found |-> NoId, findErr |-> "none", refound |-> NoId,
              refindErr |-> "none", finds |-> <<>>, creates |-> 0, createErrs |-> <<>>,
              pulls |-> 0, fullPulls |-> 0, starts |-> <<>>, startErr |-> "none",
              removes |-> <<>>, removeErr |-> "none", unwinds |-> 0,
              pullLabel |-> "", fullPullErr |-> "none", externalId |-> ""]

NoRet == [kind |-> "none", id |-> NoId, err |-> "none", msg |-> <<>>]

\* errors.Wrap(err, text) / errors.Wrapf(err, text, startErr): the text of
\* the returned error, outermost first, ending with the wrapped cause
ErrorText(e, h) ==
    CASE e = "remove" -> <<"failed to remove container: failed to start: ",
                           h.startErr, h.removeErr>>
      [] e = "start" -> <<"failed to start container", h.startErr>>
      [] e = "create" -> <<"failed to create container">>
      [] e = "find" -> <<"failed to get container">>
      [] e = "spec" -> <<"failed to generate container spec">>
      [] OTHER -> <<"failed to set up rancher flex volumes">>

\* return "", err  -- with the deferred unwind, h the call's updated history
ReturnErr(p, e, h) ==
    /\ pc' = [pc EXCEPT ![p] = "done"]
    /\ ret' = [ret EXCEPT ![p] = [kind |-> "err", id |-> NoId, err |-> e,
                                  msg |-> ErrorText(e, h)]]
    /\ hist' = [hist EXCEPT ![p] =
                  [h EXCEPT !.unwinds = IF Unwinds(started[p]) THEN @ + 1 ELSE @]]

----------------------------------------------------------------------------
(* ContainerStart *)

\* rancherBindMounts, err := setupRancherFlexVolume(...); the unwind is
\* deferred only after it has succeeded
SetupRancherFlexVolume(p) ==
    /\ pc[p] = "flex"
    /\ \E ok \in BOOLEAN :
         IF ok
         THEN /\ pc' = [pc EXCEPT ![p] = "spec"]
              /\ UNCHANGED <<ret, hist>>
         ELSE /\ pc' = [pc EXCEPT ![p] = "done"]
              /\ ret' = [ret EXCEPT ![p] = [kind |-> "err", id |-> NoId, err |-> "flex",
                                            msg |-> ErrorText("flex", hist[p])]]
              /\ UNCHANGED hist
    /\ UNCHANGED <<specOf, containerID, created, started, newID, containers,
                   running, nextID, serialize>>
    /\ UNCHANGED <<rootVars, auxVars>>

\* spec, err := setupContainerSpec(...): translation and volume activation.
\* getDockerRoot inside it panics when the engine Info query fails.
SetupContainerSpec(p) ==
    /\ pc[p] = "spec"
    /\ \E out \in {"none", "err", "panic"} :
         CASE out = "none" -> /\ pc' = [pc EXCEPT ![p] = "find"]
                              /\ UNCHANGED <<ret, hist>>
           [] out = "err" -> ReturnErr(p, "spec", hist[p])
           [] out = "panic" ->
                /\ pc' = [pc EXCEPT ![p] = "done"]
                /\ ret' = [ret EXCEPT ![p] = [kind |-> "panic", id |-> NoId, err |-> "spec",
                                            msg |-> <<>>]]
                /\ hist' = [hist EXCEPT ![p].unwinds =
                              IF Unwinds(started[p]) THEN @ + 1 ELSE @]
    /\ UNCHANGED <<specOf, containerID, created, started, newID, containers,
                   running, nextID, serialize>>
    /\ UNCHANGED <<rootVars, auxVars>>

\* containerID, err := utils.FindContainer(runtimeClient, containerSpec, false)
FindContainer(p) ==
    /\ pc[p] = "find"
    /\ \E r \in FindOutcomes(specOf[p]) :
         LET h == [hist[p] EXCEPT !.finds = Append(@, FALSE), !.found = r.id,
                                  !.findErr = r.err] IN
         IF IsFatalFindErr(r.err)
         THEN /\ ReturnErr(p, "find", h)
              /\ UNCHANGED containerID
         ELSE /\ containerID' = [containerID EXCEPT ![p] = r.id]
              /\ pc' = [pc EXCEPT ![p] = IF NeedsCreate(r.id) THEN "create" ELSE "start"]
              /\ hist' = [hist EXCEPT ![p] = h]
              /\ UNCHANGED ret
    /\ UNCHANGED <<specOf, created, started, newID, containers,
                   running, nextID, serialize>>
    /\ UNCHANGED <<rootVars, auxVars>>

\* what ContainerStart does with (newID, err) returned by createContainer;
\* h is the call's updated history
AfterCreateContainer(p, nid, err, h) ==
    IF IsFatalCreateErr(err)
    THEN /\ ReturnErr(p, "create", h)
         /\ UNCHANGED <<containerID, created, newID>>
    ELSE /\ newID' = [newID EXCEPT ![p] = nid]
         /\ hist' = [hist EXCEPT ![p] = h]
         /\ UNCHANGED ret
         /\ IF nid = NoId
            THEN /\ pc' = [pc EXCEPT ![p] = "refind"]
                 /\ UNCHANGED <<containerID, created>>
            ELSE /\ containerID' = [containerID EXCEPT ![p] = nid]
                 /\ created' = [created EXCEPT ![p] = CreatedAfterCreateBranch(nid)]
                 /\ pc' = [pc EXCEPT ![p] = "start"]

\* values of the io.rancher.container.pull_image label and of the external id
PullLabels == {"", "always"}
ExternalIds == {"", "ext-1"}

\* createContainer up to the first engine call: the always-pull label and the
\* external id are fields of the containerSpec argument
CreateContainerEnter(p) ==
    /\ pc[p] = "create"
    /\ \E label \in PullLabels, ext \in ExternalIds :
         LET h == [hist[p] EXCEPT !.pullLabel = label, !.externalId = ext] IN
         IF PullsAlways(label)
         THEN /\ pc' = [pc EXCEPT ![p] = "fullpull"]
              /\ hist' = [hist EXCEPT ![p] = h]
              /\ UNCHANGED <<ret, containerID, created, newID>>
         ELSE IF HasExternalId(ext)
              THEN AfterCreateContainer(p, NoId, "deleted", h)
              ELSE /\ pc' = [pc EXCEPT ![p] = "create1"]
                   /\ hist' = [hist EXCEPT ![p] = h]
                   /\ UNCHANGED <<ret, containerID, created, newID>>
    /\ UNCHANGED <<specOf, started, containers, running, nextID, serialize>>
    /\ UNCHANGED <<rootVars, auxVars>>

\* DoInstancePull(params, ...) for labels[PullImageLabels] == "always",
\* then the ExternalId check
DoInstancePull(p) ==
    /\ pc[p] = "fullpull"
    /\ \E err \in {"none", "other"} :
         LET h == [hist[p] EXCEPT !.fullPulls = @ + 1, !.fullPullErr = err] IN
         IF err # "none"
         THEN AfterCreateContainer(p, NoId, "pullInstance", h)
         ELSE IF HasExternalId(hist[p].externalId)
              THEN AfterCreateContainer(p, NoId, "deleted", h)
              ELSE /\ pc' = [pc EXCEPT ![p] = "create1"]
                   /\ hist' = [hist EXCEPT ![p] = h]
                   /\ UNCHANGED <<ret, containerID, created, newID>>
    /\ UNCHANGED <<specOf, started, containers, running, nextID, serialize>>
    /\ UNCHANGED <<rootVars, auxVars>>

\* containerResponse, err := dockerContainerCreate(...)   (first attempt)
DockerContainerCreate(p) ==
    /\ pc[p] = "create1"
    /\ \E err \in CreateOutcomes(specOf[p]) :
         LET h == [hist[p] EXCEPT !.creates = @ + 1, !.createErrs = Append(@, err)] IN
         IF PullsOnDemand(err)
         THEN /\ pc' = [pc EXCEPT ![p] = "pull"]
              /\ hist' = [hist EXCEPT ![p] = h]
              /\ UNCHANGED <<ret, containerID, created, newID, containers, nextID>>
         ELSE IF err = "none"
              THEN /\ containers' = containers \cup {[id |-> nextID, spec |-> specOf[p]]}
                   /\ nextID' = nextID + 1
                   /\ AfterCreateContainer(p, nextID, "none", h)
              ELSE /\ AfterCreateContainer(p, NoId, err, h)
                   /\ UNCHANGED <<containers, nextID>>
    /\ UNCHANGED <<specOf, started, running, serialize>>
    /\ UNCHANGED <<rootVars, auxVars>>

\* ImagePull(progress, dockerClient, containerSpec.Image, credential)
ImagePull(p) ==
    /\ pc[p] = "pull"
    /\ \E ok \in BOOLEAN :
         LET h == [hist[p] EXCEPT !.pulls = @ + 1] IN
         IF ok
         THEN /\ pc' = [pc EXCEPT ![p] = "create2"]
              /\ hist' = [hist EXCEPT ![p] = h]
              /\ UNCHANGED <<ret, containerID, created, newID>>
         ELSE AfterCreateContainer(p, NoId, "pullImage", h)
    /\ UNCHANGED <<specOf, started, containers, running, nextID, serialize>>
    /\ UNCHANGED <<rootVars, auxVars>>

\* containerResponse, err1 := dockerContainerCreate(...)  (after the pull)
DockerContainerCreateRetry(p) ==
    /\ pc[p] = "create2"
    /\ \E err \in CreateOutcomes(specOf[p]) :
         LET h == [hist[p] EXCEPT !.creates = @ + 1, !.createErrs = Append(@, err)] IN
         IF err = "none"
         THEN /\ containers' = containers \cup {[id |-> nextID, spec |-> specOf[p]]}
              /\ nextID' = nextID + 1
              /\ AfterCreateContainer(p, nextID, "none", h)
         ELSE /\ AfterCreateContainer(p, NoId, err, h)
              /\ UNCHANGED <<containers, nextID>>
    /\ UNCHANGED <<specOf, started, running, serialize>>
    /\ UNCHANGED <<rootVars, auxVars>>

\* contID, err := utils.FindContainer(runtimeClient, containerSpec, true)
FindContainerForced(p) ==
    /\ pc[p] = "refind"
    /\ \E r \in FindOutcomes(specOf[p]) :
         LET h == [hist[p] EXCEPT !.finds = Append(@, TRUE), !.refound = r.id,
                                  !.refindErr = r.err] IN
         IF IsFatalFindErr(r.err)
         THEN /\ ReturnErr(p, "find", h)
              /\ UNCHANGED <<containerID, created>>
         ELSE /\ containerID' = [containerID EXCEPT ![p] = r.id]
              /\ created' = [created EXCEPT ![p] = CreatedAfterCreateBranch(newID[p])]
              /\ pc' = [pc EXCEPT ![p] = "start"]
              /\ hist' = [hist EXCEPT ![p] = h]
              /\ UNCHANGED ret
    /\ UNCHANGED <<specOf, started, newID, containers, running, nextID, serialize>>
    /\ UNCHANGED <<rootVars, auxVars>>

\* variant: the engine start is called outside utils.Serialize
SerializeEnter_Unserialized(p) ==
    /\ pc[p] = "start"
    /\ pc' = [pc EXCEPT ![p] = "inStart"]
    /\ UNCHANGED <<specOf, containerID, created, started, newID, containers,
                   running, nextID, serialize, ret, hist>>
    /\ UNCHANGED <<rootVars, auxVars>>

\* utils.Serialize(func() error { ... }): entering the region
SerializeEnter(p) ==
    /\ pc[p] = "start"
    /\ SerializeFree(serialize)
    /\ serialize' = p
    /\ pc' = [pc EXCEPT ![p] = "inStart"]
    /\ UNCHANGED <<specOf, containerID, created, started, newID, containers,
                   running, nextID, ret, hist>>
    /\ UNCHANGED <<rootVars, auxVars>>

\* runtimeClient.ContainerStart(ctx, containerID, ...) inside the region,
\* leaving the region, and the branch on startErr
EngineStart(p) ==
    /\ pc[p] = "inStart"
    /\ serialize' = IF serialize = p THEN 0 ELSE serialize
    /\ \E err \in StartOutcomes(containerID[p]) :
         LET h == [hist[p] EXCEPT !.starts = Append(@, containerID[p]),
                                  !.startErr = err] IN
         IF err = "none"
         THEN /\ running' = running \cup {containerID[p]}
              /\ started' = [started EXCEPT ![p] = TRUE]
              /\ pc' = [pc EXCEPT ![p] = "done"]
              /\ ret' = [ret EXCEPT ![p] =
                           [kind |-> "ok", id |-> containerID[p], err |-> "none",
                            msg |-> <<>>]]
              /\ hist' = [hist EXCEPT ![p] = h]
         ELSE /\ UNCHANGED <<running, started>>
              /\ IF RemovesOnStartFailure(created[p])
                 THEN /\ pc' = [pc EXCEPT ![p] = "remove"]
                      /\ hist' = [hist EXCEPT ![p] = h]
                      /\ UNCHANGED ret
                 ELSE ReturnErr(p, "start", h)
    /\ UNCHANGED <<specOf, containerID, created, newID, containers, nextID>>
    /\ UNCHANGED <<rootVars, auxVars>>

\* variant: the error of the removal is dropped and the start error returned
RemoveContainer_DropsError(p) ==
    /\ pc[p] = "remove"
    /\ \E err \in RemoveOutcomes(containerID[p]) :
         LET h == [hist[p] EXCEPT !.removes = Append(@, containerID[p]),
                                  !.removeErr = err] IN
         /\ IF err = "none"
            THEN /\ containers' = {c \in containers : c.id # containerID[p]}
                 /\ running' = running \ {containerID[p]}
            ELSE UNCHANGED <<containers, running>>
         /\ ReturnErr(p, "start", h)
    /\ UNCHANGED <<specOf, containerID, created, started, newID, nextID, serialize>>
    /\ UNCHANGED <<rootVars, auxVars>>

\* utils.RemoveContainer(runtimeClient, containerID) after a failed start
RemoveContainer(p) ==
    /\ pc[p] = "remove"
    /\ \E err \in RemoveOutcomes(containerID[p]) :
         LET h == [hist[p] EXCEPT !.removes = Append(@, containerID[p]),
                                  !.removeErr = err] IN
         /\ IF err = "none"
            THEN /\ containers' = {c \in containers : c.id # containerID[p]}
                 /\ running' = running \ {containerID[p]}
                 /\ ReturnErr(p, "start", h)
            ELSE /\ UNCHANGED <<containers, running>>
                 /\ ReturnErr(p, "remove", h)
    /\ UNCHANGED <<specOf, containerID, created, started, newID, nextID, serialize>>
    /\ UNCHANGED <<rootVars, auxVars>>

----------------------------------------------------------------------------
(* setupContainerSpec in detail: the activation loop of                    *)
(* setupNonRancherVolumes, for one call with a list of volumes.            *)

\* the goroutine whose call is followed through the volume loop
VolCaller == 1

\* IsRancherVolume(volume)
IsRancherVolume(v) == v.rancher

\* IsVolumeActive(volume, client): the backend's answer, or an error
IsVolumeActiveOutcomes(i) ==
    {[ok |-> volActive[i], err |-> "none"], [ok |-> FALSE, err |-> "other"]}

\* variant: every volume whose check did not fail is activated
ActivatesVolume_AlsoActive(ok, err) == err = "none"

\* if ok, err := IsVolumeActive(...); !ok && err == nil { DoVolumeActivate }
ActivatesVolume(ok, err) == ~ok /\ err = "none"

\* setupContainerSpec up to the activation loop: setupDNSSearch may fail,
\* getDockerRoot may panic while the binds are built
SetupContainerSpecBegin(p) ==
    /\ pc[p] = "spec"
    /\ \E out \in {"none", "err", "panic"} :
         CASE out = "none" -> /\ pc' = [pc EXCEPT ![p] = "vol"]
                              /\ UNCHANGED <<ret, hist>>
           [] out = "err" -> ReturnErr(p, "spec", hist[p])
           [] out = "panic" ->
                /\ pc' = [pc EXCEPT ![p] = "done"]
                /\ ret' = [ret EXCEPT ![p] = [kind |-> "panic", id |-> NoId, err |-> "spec",
                                            msg |-> <<>>]]
                /\ hist' = [hist EXCEPT ![p].unwinds =
                              IF Unwinds(started[p]) THEN @ + 1 ELSE @]
    /\ UNCHANGED <<specOf, containerID, created, started, newID, containers,
                   running, nextID, serialize>>
    /\ UNCHANGED <<rootVars, auxVars>>

\* one iteration of  for _, volume := range volumes { if !IsRancherVolume ... }
\* up to the answer of IsVolumeActive
VolumeCheck(p) ==
    /\ pc[p] = "vol"
    /\ IF volIdx > Len(volumes)
       THEN /\ pc' = [pc EXCEPT ![p] = "net"]
            /\ UNCHANGED <<ret, hist, volIdx, volLog>>
       ELSE IF IsRancherVolume(volumes[volIdx])
       THEN /\ volIdx' = volIdx + 1
            /\ UNCHANGED <<pc, ret, hist, volLog>>
       ELSE \E r \in IsVolumeActiveOutcomes(volIdx) :
              /\ volLog' = Append(volLog, [op |-> "check", i |-> volIdx,
                                           ok |-> r.ok, err |-> r.err])
              /\ IF ActivatesVolume(r.ok, r.err)
                 THEN /\ pc' = [pc EXCEPT ![p] = "activate"]
                      /\ UNCHANGED <<ret, hist, volIdx>>
                 ELSE IF r.err # "none"
                 THEN /\ ReturnErr(p, "spec", hist[p])
                      /\ UNCHANGED volIdx
                 ELSE /\ volIdx' = volIdx + 1
                      /\ UNCHANGED <<pc, ret, hist>>
    /\ UNCHANGED <<specOf, containerID, created, started, newID, containers,
                   running, nextID, serialize, volumes, volActive>>
    /\ UNCHANGED <<rootVars, envVars, portVars, bindVars, queryVars>>

\* DoVolumeActivate(volume, client, progress)
DoVolumeActivate(p) ==
    /\ pc[p] = "activate"
    /\ \E err \in {"none", "other"} :
         /\ volLog' = Append(volLog, [op |-> "activate", i |-> volIdx,
                                      ok |-> err = "none", err |-> err])
         /\ IF err = "none"
            THEN /\ volActive' = [volActive EXCEPT ![volIdx] = TRUE]
                 /\ volIdx' = volIdx + 1
                 /\ pc' = [pc EXCEPT ![p] = "vol"]
                 /\ UNCHANGED <<ret, hist>>
            ELSE /\ ReturnErr(p, "spec", hist[p])
                 /\ UNCHANGED <<volActive, volIdx>>
    /\ UNCHANGED <<specOf, containerID, created, started, newID, containers,
                   running, nextID, serialize, volumes>>
    /\ UNCHANGED <<rootVars, envVars, portVars, bindVars, queryVars>>

\* the engine while the one call runs: a ContainerStart of another caller
\* creates the container of the same specification
CompetingCreate ==
    /\ pc[VolCaller] # "done"
    /\ IdsOf(specOf[VolCaller]) = {}
    /\ containers' = containers \cup {[id |-> nextID, spec |-> specOf[VolCaller]]}
    /\ nextID' = nextID + 1
    /\ UNCHANGED <<pc, specOf, containerID, created, started, newID, running,
                   serialize, ret, hist>>
    /\ UNCHANGED <<rootVars, auxVars>>

\* the rest of setupContainerSpec: setupNetworking may fail
SetupNetworking(p) ==
    /\ pc[p] = "net"
    /\ \E ok \in BOOLEAN :
         IF ok
         THEN /\ pc' = [pc EXCEPT ![p] = "find"]
              /\ UNCHANGED <<ret, hist>>
         ELSE ReturnErr(p, "spec", hist[p])
    /\ UNCHANGED <<specOf, containerID, created, started, newID, containers,
                   running, nextID, serialize>>
    /\ UNCHANGED <<rootVars, auxVars>>

----------------------------------------------------------------------------
(* setupLabels and setupFieldsConfig: the maps of the specification.  The   *)
(* translation is run twice on the same specification.                     *)

\* keys and values of the Environment map, keys of Labels
EnvKeys == 1..MaxEnvKeys
EnvValues == {"a", "b"}
UUIDLabel == "io.rancher.container.uuid"
LabelMaps == {<<>>} \cup [{"app"} -> {"web"}] \cup [{UUIDLabel} -> {"other"}]
TheUuid == "uuid-1"
Runs == {1, 2}

\* the orders in which a range over a map with keys S may visit them
RangeOrders(S) ==
    {o \in [1..Cardinality(S) -> S] : \A i, j \in DOMAIN o : o[i] = o[j] => i = j}

\* fmt.Sprintf("%v=%v", k, v)
KeyValue(k, v) == <<k, "=", v>>

\* for k, v := range spec.Environment: Go leaves the order unspecified
EnvOrders(S) == RangeOrders(S)

\* setupLabels: the labels of the spec, then the uuid label
SetupLabels(labels, uuid) ==
    [k \in DOMAIN labels \cup {UUIDLabel} |->
        IF k = UUIDLabel THEN uuid ELSE labels[k]]

\* one run of the translation: setupLabels and setupFieldsConfig
SetupFieldsConfig(r) ==
    /\ r \notin configDone
    /\ \E o \in EnvOrders(DOMAIN environment) :
         config' = [config EXCEPT ![r] =
                      [Env |-> [i \in DOMAIN o |-> KeyValue(o[i], environment[o[i]])],
                       Labels |-> SetupLabels(specLabels, TheUuid)]]
    /\ configDone' = configDone \cup {r}
    /\ UNCHANGED <<environment, specLabels>>
    /\ UNCHANGED <<startVars, rootVars, volVars, portVars, bindVars, queryVars>>

----------------------------------------------------------------------------
(* setupPorts *)

PrivatePorts == {0, 80}
PublicPorts == {0, 8080}
Protocols == {"tcp", "udp"}
BindIps == {"", "10.0.0.1"}
Endpoints == [PrivatePort : PrivatePorts, Protocol : Protocols,
              PublicPort : PublicPorts, BindIpAddress : BindIps]

\* strconv.Itoa for a port number: its decimal digits
RECURSIVE Itoa(_)
Itoa(n) ==
    LET digit == <<"0", "1", "2", "3", "4", "5", "6", "7", "8", "9">>[(n % 10) + 1] IN
    IF n < 10 THEN <<digit>> ELSE Itoa(n \div 10) \o <<digit>>

\* nat.Port(fmt.Sprintf("%v/%v", endpoint.PrivatePort, endpoint.Protocol))
PortKey(e) == Itoa(e.PrivatePort) \o <<"/", e.Protocol>>

\* nat.PortBinding{HostIP: bindAddr, HostPort: strconv.Itoa(int(endpoint.PublicPort))}
PortBinding(e) == [HostIP |-> e.BindIpAddress, HostPort |-> Itoa(e.PublicPort)]

\* if endpoint.PrivatePort != 0
HasPrivatePort(e) == e.PrivatePort # 0

\* one iteration of  for _, endpoint := range containerSpec.PublicEndpoints
SetupPortsLoop ==
    /\ portConfig.done = FALSE
    /\ portIdx <= Len(publicEndpoints)
    /\ LET e == publicEndpoints[portIdx]
           bind == PortKey(e) IN
       IF HasPrivatePort(e)
       THEN /\ bindings' = IF bind \notin DOMAIN bindings
                           THEN bindings @@ (bind :> <<PortBinding(e)>>)
                           ELSE [bindings EXCEPT ![bind] = Append(@, PortBinding(e))]
            /\ exposedPorts' = exposedPorts \cup {bind}
       ELSE UNCHANGED <<bindings, exposedPorts>>
    /\ portIdx' = portIdx + 1
    /\ UNCHANGED <<publicEndpoints, portConfig>>
    /\ UNCHANGED <<startVars, rootVars, volVars, envVars, bindVars, queryVars>>

\* config.ExposedPorts = exposedPorts; PortBindings only when there are some
\* (initializeMaps has made it an empty map)
SetupPortsReturn ==
    /\ portConfig.done = FALSE
    /\ portIdx > Len(publicEndpoints)
    /\ portConfig' = [done |-> TRUE, ExposedPorts |-> exposedPorts,
                      PortBindings |-> IF DOMAIN bindings # {} THEN bindings ELSE <<>>]
    /\ UNCHANGED <<publicEndpoints, portIdx, exposedPorts, bindings>>
    /\ UNCHANGED <<startVars, rootVars, volVars, envVars, bindVars, queryVars>>

----------------------------------------------------------------------------
(* setupNonRancherVolumes: the binds.  A string is the sequence of the      *)
(* pieces its colons separate, so "a:b" is <<"a", "b">>.                    *)

VarLibDocker == "/var/lib/docker"

\* data-volume declarations source[:target[:mode]]
Declarations ==
    {<<VarLibDocker>>, <<VarLibDocker, VarLibDocker>>,
     <<VarLibDocker, VarLibDocker, "ro">>, <<VarLibDocker, VarLibDocker, "ro", "z">>,
     <<VarLibDocker, "/data">>, <<"/data", VarLibDocker, "ro">>,
     <<"vol1", "/data">>, <<"vol1">>}

\* strings.SplitN(volume, ":", 3): at most three parts, the last one keeps
\* the remaining colons
SplitN3(str) ==
    IF Len(str) <= 3
    THEN [i \in 1..Len(str) |-> <<str[i]>>]
    ELSE <<<<str[1]>>, <<str[2]>>, SubSeq(str, 3, Len(str))>>

\* fmt.Sprintf("%s:%s:%s", a, b, c)
Bind(a, b, c) == a \o b \o c

\* rancherManagedVolumeNames
RancherManagedVolumeNames ==
    {<<volumes[i].name>> : i \in {j \in 1..Len(volumes) : IsRancherVolume(volumes[j])}}

\* variant: the declared path is bound whatever the docker root is
RedirectsTo_Never(root) == FALSE

\* if root != "/var/lib/docker"
RedirectsTo(root) == root # <<VarLibDocker>>

\* the mode of a declaration with two or three parts
ModeOf(parts) == IF Len(parts) = 3 THEN parts[3] ELSE <<"rw">>

\* one iteration of  for _, volume := range containerSpec.DataVolumes;
\* getDockerRoot returns the cached dockerRoot
BindsLoop ==
    /\ bindConfig.done = FALSE
    /\ bindIdx <= Len(dataVolumes)
    /\ LET parts == SplitN3(dataVolumes[bindIdx])
           root == <<dockerRoot>>
           new == IF parts[1] \in RancherManagedVolumeNames \/ Len(parts) = 1
                  THEN <<>>
                  ELSE IF /\ parts[1] = <<VarLibDocker>>
                          /\ parts[2] = <<VarLibDocker>>
                          /\ RedirectsTo(root)
                  THEN <<Bind(root, parts[2], ModeOf(parts)),
                         Bind(root, root, ModeOf(parts))>>
                  ELSE <<Bind(parts[1], parts[2], ModeOf(parts))>>
           vols == IF parts[1] \in RancherManagedVolumeNames
                   THEN {}
                   ELSE IF Len(parts) = 1
                   THEN {parts[1]}
                   ELSE IF /\ parts[1] = <<VarLibDocker>>
                           /\ parts[2] = <<VarLibDocker>>
                           /\ RedirectsTo(root)
                   THEN {parts[2], root}
                   ELSE {parts[2]} IN
       /\ binds' = binds \o new
       /\ yields' = Append(yields, new)
       /\ volumesMap' = volumesMap \cup vols
    /\ bindIdx' = bindIdx + 1
    /\ UNCHANGED <<dataVolumes, bindConfig>>
    /\ UNCHANGED <<startVars, rootVars, volVars, envVars, portVars, queryVars>>

\* config.Volumes = volumesMap; hostConfig.Binds = append(hostConfig.Binds, binds...)
BindsReturn ==
    /\ bindConfig.done = FALSE
    /\ bindIdx > Len(dataVolumes)
    /\ bindConfig' = [done |-> TRUE, Volumes |-> volumesMap, Binds |-> binds]
    /\ UNCHANGED <<dataVolumes, bindIdx, binds, volumesMap, yields>>
    /\ UNCHANGED <<startVars, rootVars, volVars, envVars, portVars, queryVars>>

----------------------------------------------------------------------------
(* IsContainerStarted and isRunning *)

\* State.Running and State.Restarting as the engine reports them; both are
\* set while a container restarts
InspectStates == [Running : BOOLEAN, Restarting : BOOLEAN]

\* dockerClient.ContainerInspect: the state, not-found, or another error
InspectOutcomes(id) ==
    (IF Exists(id) THEN {[err |-> "none", state |-> engineState[id]]}
                   ELSE {[err |-> "notfound",
                          state |-> [Running |-> FALSE, Restarting |-> FALSE]]})
    \cup {[err |-> "other", state |-> [Running |-> FALSE, Restarting |-> FALSE]]}

NothingSeen == [findErr |-> "none", inspected |-> FALSE, inspectErr |-> "none",
                state |-> [Running |-> FALSE, Restarting |-> FALSE]]

QueryResult(run, restart, err) == [running |-> run, restarting |-> restart, err |-> err]

\* variant: a restarting container is reported as running
RunningOf_IgnoresRestart(st) == st.Running

\* inspect.State.Running && !inspect.State.Restarting
RunningOf(st) == st.Running /\ ~st.Restarting

\* IsContainerStarted up to the call of isRunning
IsContainerStarted ==
    /\ qPc = "idle"
    /\ \E sp \in Specs : \E r \in FindOutcomes(sp) :
         /\ qSeen' = [qSeen EXCEPT !.findErr = r.err]
         /\ IF r.err # "none"
            THEN /\ qRet' = IF r.err = "notfound"
                            THEN QueryResult(FALSE, FALSE, "none")
                            ELSE QueryResult(FALSE, FALSE, "failed to get container")
                 /\ qPc' = "done"
                 /\ UNCHANGED qCont
            ELSE /\ qCont' = r.id
                 /\ qPc' = "isRunning"
                 /\ UNCHANGED qRet
    /\ UNCHANGED engineState
    /\ UNCHANGED <<startVars, rootVars, volVars, envVars, portVars, bindVars>>

\* isRunning called by another function of the package, with any identifier
IsRunningCalled ==
    /\ qPc = "idle"
    /\ \E id \in {NoId} \cup {c.id : c \in containers} :
         qCont' = id
    /\ qPc' = "isRunning"
    /\ UNCHANGED <<engineState, qSeen, qRet>>
    /\ UNCHANGED <<startVars, rootVars, volVars, envVars, portVars, bindVars>>

\* isRunning(dockerClient, containerID)
IsRunning ==
    /\ qPc = "isRunning"
    /\ IF qCont = NoId
       THEN /\ qRet' = QueryResult(FALSE, FALSE, "none")
            /\ UNCHANGED qSeen
       ELSE \E o \in InspectOutcomes(qCont) :
              /\ qSeen' = [qSeen EXCEPT !.inspected = TRUE, !.inspectErr = o.err,
                                        !.state = o.state]
              /\ qRet' = IF o.err = "none"
                         THEN QueryResult(RunningOf(o.state), o.state.Restarting, "none")
                         ELSE IF o.err = "notfound"
                         THEN QueryResult(FALSE, FALSE, "none")
                         ELSE QueryResult(FALSE, FALSE, o.err)
    /\ qPc' = "done"
    /\ UNCHANGED <<engineState, qCont>>
    /\ UNCHANGED <<startVars, rootVars, volVars, envVars, portVars, bindVars>>

\* the engine while the query runs: a container is removed by someone else
ContainerRemoved ==
    /\ qPc = "isRunning"
    /\ \E c \in containers :
         /\ containers' = containers \ {c}
         /\ running' = running \ {c.id}
         /\ engineState' = [i \in DOMAIN engineState \ {c.id} |-> engineState[i]]
    /\ UNCHANGED <<pc, specOf, containerID, created, started, newID, nextID,
                   serialize, ret, hist, qPc, qCont, qSeen, qRet>>
    /\ UNCHANGED <<rootVars, volVars, envVars, portVars, bindVars>>

----------------------------------------------------------------------------
(* getDockerRoot: dockerRootOnce.Do(func() { info, err := client.Info() ... }) *)

\* values the engine may report as info.DockerRootDir
Roots == {"/var/lib/docker", "/mnt/docker"}

\* variant: the query is not guarded by the once
OnceMustRun_Always(done) == TRUE

\* sync.Once runs the function only while its done flag is unset
OnceMustRun(done) == ~done

\* a goroutine calls getDockerRoot: Once.Do reads the done flag
GetDockerRoot(g) ==
    /\ rootPc[g] = "idle"
    /\ Len(rootRet[g]) < MaxRootCalls
    /\ IF OnceMustRun(onceDone)
       THEN /\ rootPc' = [rootPc EXCEPT ![g] = "doSlow"]
            /\ UNCHANGED rootRet
       ELSE /\ rootRet' = [rootRet EXCEPT ![g] = Append(@, dockerRoot)]
            /\ UNCHANGED rootPc
    /\ UNCHANGED <<onceDone, onceM, dockerRoot, infoCalls, infoOk>>
    /\ UNCHANGED <<startVars, auxVars>>

\* Once.doSlow: takes the mutex and reads the done flag again
OnceDoSlow(g) ==
    /\ rootPc[g] = "doSlow"
    /\ onceM = 0
    /\ IF OnceMustRun(onceDone)
       THEN /\ onceM' = g
            /\ rootPc' = [rootPc EXCEPT ![g] = "info"]
            /\ UNCHANGED rootRet
       ELSE /\ rootRet' = [rootRet EXCEPT ![g] = Append(@, dockerRoot)]
            /\ rootPc' = [rootPc EXCEPT ![g] = "idle"]
            /\ UNCHANGED onceM
    /\ UNCHANGED <<onceDone, dockerRoot, infoCalls, infoOk>>
    /\ UNCHANGED <<startVars, auxVars>>

\* the function passed to Once.Do: client.Info, panic on error, else
\* dockerRoot = info.DockerRootDir; Once sets done and unlocks in both cases
ClientInfo(g) ==
    /\ rootPc[g] = "info"
    /\ infoCalls' = infoCalls + 1
    /\ onceDone' = TRUE
    /\ onceM' = IF onceM = g THEN 0 ELSE onceM
    /\ \E r \in Roots \cup {"error"} :
         IF r = "error"
         THEN /\ rootPc' = [rootPc EXCEPT ![g] = "panicked"]
              /\ UNCHANGED <<dockerRoot, rootRet, infoOk>>
         ELSE /\ dockerRoot' = r
              /\ infoOk' = TRUE
              /\ rootRet' = [rootRet EXCEPT ![g] = Append(@, r)]
              /\ rootPc' = [rootPc EXCEPT ![g] = "idle"]
    /\ UNCHANGED <<startVars, auxVars>>

----------------------------------------------------------------------------

\* callers are numbered so that the specs in use are 1..k
Canonical(f) ==
    \A p \in Procs :
        f[p] <= 1 + Cardinality({f[q] : q \in {r \in Procs : r < p}})

StartInit ==
    /\ specOf \in {f \in [Procs -> Specs] : Canonical(f)}
    /\ containerID = [p \in Procs |-> NoId]
    /\ created = [p \in Procs |-> FALSE]
    /\ started = [p \in Procs |-> FALSE]
    /\ newID = [p \in Procs |-> NoId]
    /\ containers = {}
    /\ running = {}
    /\ nextID = 1
    /\ serialize = 0
    /\ ret = [p \in Procs |-> NoRet]
    /\ hist = [p \in Procs |-> EmptyHist]

RootInit ==
    /\ rootPc = [g \in RootProcs |-> "idle"]
    /\ onceDone = FALSE
    /\ onceM = 0
    /\ dockerRoot = ""
    /\ rootRet = [g \in RootProcs |-> <<>>]
    /\ infoCalls = 0
    /\ infoOk = FALSE

\* no volumes passed
NoVolumes ==
    /\ volumes = <<>>
    /\ volActive = <<>>
    /\ volIdx = 1
    /\ volLog = <<>>

\* the maps the translation is run on
EnvInputs ==
    /\ environment \in UNION {[S -> EnvValues] : S \in SUBSET EnvKeys}
    /\ specLabels \in LabelMaps
    /\ configDone = {}
    /\ config = [r \in Runs |-> [Env |-> <<>>, Labels |-> <<>>]]

EnvIdle ==
    /\ environment = <<>>
    /\ specLabels = <<>>
    /\ configDone = {}
    /\ config = [r \in Runs |-> [Env |-> <<>>, Labels |-> <<>>]]

\* setupPorts starts with empty maps
PortsStart ==
    /\ portIdx = 1
    /\ exposedPorts = {}
    /\ bindings = <<>>
    /\ portConfig = [done |-> FALSE, ExposedPorts |-> {}, PortBindings |-> <<>>]

PortInputs ==
    /\ publicEndpoints \in UNION {[1..n -> Endpoints] : n \in 0..MaxEndpoints}
    /\ PortsStart

PortIdle ==
    /\ publicEndpoints = <<>>
    /\ PortsStart

\* setupNonRancherVolumes starts with no binds
BindsStart ==
    /\ bindIdx = 1
    /\ binds = <<>>
    /\ volumesMap = {}
    /\ yields = <<>>
    /\ bindConfig = [done |-> FALSE, Volumes |-> {}, Binds |-> <<>>]

BindInputs ==
    /\ dataVolumes \in UNION {[1..n -> Declarations] : n \in 0..MaxDataVolumes}
    /\ BindsStart

BindIdle ==
    /\ dataVolumes = <<>>
    /\ BindsStart

\* the docker root has been resolved by an earlier getDockerRoot
RootResolved ==
    /\ rootPc = [g \in RootProcs |-> "idle"]
    /\ onceDone = TRUE
    /\ onceM = 0
    /\ dockerRoot \in Roots
    /\ rootRet = [g \in RootProcs |-> <<>>]
    /\ infoCalls = 1
    /\ infoOk = TRUE

QueryStart ==
    /\ qPc = "idle"
    /\ qCont = NoId
    /\ qSeen = NothingSeen
    /\ qRet = QueryResult(FALSE, FALSE, "none")

QueryIdle ==
    /\ engineState = <<>>
    /\ QueryStart

\* the inputs of the function under study x, none for the others
PureInit(x) ==
    /\ IF x = "query" THEN QueryStart ELSE QueryIdle
    /\ IF x = "binds" THEN BindInputs ELSE BindIdle
    /\ IF x = "env" THEN EnvInputs ELSE EnvIdle
    /\ IF x = "ports" THEN PortInputs ELSE PortIdle

Init ==
    /\ pc = [p \in Procs |-> "flex"]
    /\ StartInit
    /\ RootInit
    /\ NoVolumes
    /\ PureInit("none")

Next ==
    \E p \in Procs :
        \/ SetupRancherFlexVolume(p)
        \/ SetupContainerSpec(p)
        \/ FindContainer(p)
        \/ CreateContainerEnter(p)
        \/ DoInstancePull(p)
        \/ DockerContainerCreate(p)
        \/ ImagePull(p)
        \/ DockerContainerCreateRetry(p)
        \/ FindContainerForced(p)
        \/ SerializeEnter(p)
        \/ EngineStart(p)
        \/ RemoveContainer(p)

NextRoot ==
    \E g \in RootProcs :
        \/ GetDockerRoot(g)
        \/ OnceDoSlow(g)
        \/ ClientInfo(g)

\* volume lists of up to MaxVolumes volumes
VolumeLists ==
    UNION {[1..n -> [name : {"vol1"}, rancher : BOOLEAN]] : n \in 0..MaxVolumes}

\* one call, made with a list of volumes; the others are not made
InitVol ==
    /\ pc = [p \in Procs |-> IF p = VolCaller THEN "flex" ELSE "idle"]
    /\ StartInit
    /\ RootInit
    /\ volumes \in VolumeLists
    /\ volActive \in [1..Len(volumes) -> BOOLEAN]
    /\ volIdx = 1
    /\ volLog = <<>>
    /\ PureInit("none")

\* no call is made: a function of the file is run on its inputs
InitPure(x) ==
    /\ pc = [p \in Procs |-> "idle"]
    /\ StartInit
    /\ RootInit
    /\ NoVolumes
    /\ PureInit(x)

InitEnv == InitPure("env")

NextEnv == \E r \in Runs : SetupFieldsConfig(r)

InitPorts == InitPure("ports")

\* the bind loop is run on a list of declarations, a list of volumes and a
\* resolved docker root
InitBinds ==
    /\ pc = [p \in Procs |-> "idle"]
    /\ StartInit
    /\ RootResolved
    /\ volumes \in VolumeLists
    /\ volActive = [i \in 1..Len(volumes) |-> TRUE]
    /\ volIdx = 1
    /\ volLog = <<>>
    /\ PureInit("binds")

NextBinds == BindsLoop \/ BindsReturn

\* the query is made on an engine that holds any of the containers
InitQuery ==
    /\ pc = [p \in Procs |-> "idle"]
    /\ specOf \in {f \in [Procs -> Specs] : Canonical(f)}
    /\ containerID = [p \in Procs |-> NoId]
    /\ created = [p \in Procs |-> FALSE]
    /\ started = [p \in Procs |-> FALSE]
    /\ newID = [p \in Procs |-> NoId]
    /\ \E S \in SUBSET Specs :
         /\ containers = {[id |-> i, spec |-> i] : i \in S}
         /\ engineState \in [S -> InspectStates]
    /\ running = {i \in DOMAIN engineState : engineState[i].Running}
    /\ nextID = NumProcs + 1
    /\ serialize = 0
    /\ ret = [p \in Procs |-> NoRet]
    /\ hist = [p \in Procs |-> EmptyHist]
    /\ RootInit
    /\ NoVolumes
    /\ PureInit("query")

NextQuery ==
    \/ IsContainerStarted
    \/ IsRunningCalled
    \/ IsRunning
    \/ ContainerRemoved

NextPorts == SetupPortsLoop \/ SetupPortsReturn

NextVol ==
    \/ CompetingCreate
    \/ \E p \in Procs :
        \/ SetupRancherFlexVolume(p)
        \/ SetupContainerSpecBegin(p)
        \/ VolumeCheck(p)
        \/ DoVolumeActivate(p)
        \/ SetupNetworking(p)
        \/ FindContainer(p)
        \/ CreateContainerEnter(p)
        \/ DoInstancePull(p)
        \/ DockerContainerCreate(p)
        \/ ImagePull(p)
        \/ DockerContainerCreateRetry(p)
        \/ FindContainerForced(p)
        \/ SerializeEnter(p)
        \/ EngineStart(p)
        \/ RemoveContainer(p)

Spec == Init /\ [][Next]_vars

SpecVol == InitVol /\ [][NextVol]_vars

SpecEnv == InitEnv /\ [][NextEnv]_vars

SpecPorts == InitPorts /\ [][NextPorts]_vars

SpecBinds == InitBinds /\ [][NextBinds]_vars

SpecQuery == InitQuery /\ [][NextQuery]_vars

SpecRoot == Init /\ [][NextRoot]_vars

----------------------------------------------------------------------------
(* Properties *)

Range(q) == {q[i] : i \in 1..Len(q)}

Returned(p) == pc[p] = "done"

\* the last create of call p failed with the name-in-use error
NameInUse(p) ==
    /\ hist[p].createErrs # <<>>
    /\ hist[p].createErrs[Len(hist[p].createErrs)] = "nameInUse"

\* call p took its container from a lookup, not from its own create
Adopted(p) == containerID[p] # NoId /\ newID[p] = NoId

\* C1: once two calls for the same specification have both returned, exactly
\* one container with the derived name exists and both calls returned the
\* same identifier or a consistent error.  Stated for the runs in which a
\* call returned an identifier (a run in which every call failed promises no
\* container): the container that call returned is then the one container
\* with the derived name, and the other call returned the same identifier
\* or an error.
C1_OneContainerSameResult ==
    \A p, q \in Procs :
        (p # q /\ specOf[p] = specOf[q] /\ Returned(p) /\ Returned(q)
               /\ ret[p].kind = "ok") =>
            /\ IdsOf(specOf[p]) = {ret[p].id}
            /\ ret[q].kind = "ok" => ret[q].id = ret[p].id

\* C2: when the start fails for a container the call adopted (found by the
\* initial lookup or re-resolved after name-in-use), the call makes no remove
\* call for that container.
C2_AdoptedNeverRemoved ==
    \A p \in Procs :
        (hist[p].startErr # "none" /\ Adopted(p)) =>
            containerID[p] \notin Range(hist[p].removes)

\* C3: when the start fails for the container this call's own create returned,
\* remove is invoked on exactly that identifier before the call returns its
\* error, and after a successful remove the container no longer exists.
C3_CreatedRemovedOnStartFailure ==
    \A p \in Procs :
        (Returned(p) /\ hist[p].startErr # "none" /\ newID[p] # NoId) =>
            /\ hist[p].starts = <<newID[p]>>
            /\ hist[p].removes = <<newID[p]>>
            /\ ret[p].kind = "err"
            /\ hist[p].removeErr = "none" => ~Exists(newID[p])

C3_Witness ==
    \E p \in Procs :
        /\ Returned(p) /\ hist[p].startErr # "none" /\ newID[p] # NoId
        /\ hist[p].removeErr = "none"

\* C4: a call whose initial lookup found a container makes no create call and
\* no pull, none of its steps changes the set of containers, and a successful
\* start returns the identifier the lookup found.
C4_FoundIsNoOp ==
    [][\A p \in Procs :
          (hist[p].found # NoId /\ pc'[p] # pc[p]) =>
              /\ containers' = containers
              /\ hist'[p].creates = 0
              /\ hist'[p].pulls = 0
              /\ hist'[p].fullPulls = 0
              /\ ret'[p].kind = "ok" => ret'[p].id = hist[p].found]_vars

C4_Witness ==
    \E p \in Procs :
        /\ hist[p].found # NoId /\ ret[p].kind = "ok"
        /\ Cardinality(containers) = 1

\* C5: createContainer pulls on demand exactly once after a first create that
\* failed with image-not-found and then creates exactly once more; a failure
\* of the second create is returned without another pull or create, so a
\* call makes at most two create calls.
C5_OnePullOneRetry ==
    \A p \in Procs :
        LET h == hist[p]
            n == Len(h.createErrs) IN
        /\ h.creates = n /\ n <= 2 /\ h.pulls <= 1
        /\ (n >= 1 /\ h.createErrs[1] = "imageNotFound") =>
              \/ pc[p] = "pull" /\ h.pulls = 0 /\ n = 1
              \/ pc[p] = "create2" /\ h.pulls = 1 /\ n = 1
              \/ Returned(p) /\ ret[p].err = "create" /\ h.pulls = 1 /\ n = 1
              \/ h.pulls = 1 /\ n = 2
        /\ (n >= 1 /\ h.createErrs[1] # "imageNotFound") => (n = 1 /\ h.pulls = 0)
        /\ (n = 2 /\ h.createErrs[2] \notin {"none", "nameInUse"}) =>
              (Returned(p) /\ ret[p].err = "create")

C5_Witness ==
    \E p \in Procs :
        /\ Len(hist[p].createErrs) = 2
        /\ hist[p].createErrs[2] = "imageNotFound"
        /\ Returned(p)

\* C6: at most one call is inside the engine start at any moment, for the
\* same or for different containers.
C6_StartsSerialized ==
    Cardinality({p \in Procs : pc[p] = "inStart"}) <= 1

C6_Witness ==
    \E p, q \in Procs :
        /\ pc[p] = "inStart" /\ pc[q] = "start"
        /\ specOf[p] # specOf[q]

\* C7: the managed-volume unwind runs on every exit of ContainerStart that
\* did not reach the started state, whichever step failed, and not on the
\* successful exit.
C7_UnwindOnEveryFailure ==
    \A p \in Procs :
        Returned(p) =>
            hist[p].unwinds = (IF ret[p].kind = "ok" THEN 0 ELSE 1)

\* C8: a create that fails with name-in-use is not returned as an error: the
\* call looks the container up again with forced refresh, starts the
\* identifier that lookup returned, and returns it when the start succeeds.
C8_NameInUseAdopts ==
    \A p \in Procs :
        NameInUse(p) =>
            /\ ret[p].err # "create"
            /\ \/ pc[p] = "refind" /\ hist[p].finds = <<FALSE>>
               \/ /\ hist[p].finds = <<FALSE, TRUE>>
                  /\ \/ Returned(p) /\ hist[p].refindErr = "other" /\ ret[p].err = "find"
                     \/ /\ hist[p].refindErr # "other"
                        /\ containerID[p] = hist[p].refound
                        /\ Range(hist[p].starts) \subseteq {hist[p].refound}
                        /\ ret[p].kind = "ok" => ret[p].id = hist[p].refound

C8_Witness ==
    \E p \in Procs :
        NameInUse(p) /\ ret[p].kind = "ok" /\ ret[p].id = hist[p].refound

\* C9: the engine info query runs at most once over all getDockerRoot calls,
\* and every call that returns after a successful query returns the cached
\* value.
C9_RootQueriedOnce ==
    /\ infoCalls <= 1
    /\ infoOk => \A g \in RootProcs : Range(rootRet[g]) \subseteq {dockerRoot}
    /\ infoOk => dockerRoot \in Roots

C9_Witness ==
    /\ infoOk
    /\ \E g, h \in RootProcs : g # h /\ Len(rootRet[g]) = 2 /\ Len(rootRet[h]) >= 1

\* C10: in the initial lookup not-found leads to createContainer; any other
\* lookup failure returns an error at once, with no create, start or remove
\* call made.
C10_LookupFailureAborts ==
    [][\A p \in Procs :
          (pc[p] = "find" /\ pc'[p] # "find") =>
              /\ hist'[p].findErr = "notfound" => pc'[p] = "create"
              /\ hist'[p].findErr = "other" =>
                    /\ pc'[p] = "done" /\ ret'[p].kind = "err"
                    /\ hist'[p].creates = 0
                    /\ hist'[p].starts = <<>>
                    /\ hist'[p].removes = <<>>]_vars

C10_Witness ==
    \E p, q \in Procs :
        /\ hist[p].findErr = "other" /\ Returned(p) /\ hist[p].creates = 0
        /\ hist[q].findErr = "notfound" /\ hist[q].creates >= 1

\* C11: with the always-pull label createContainer makes the full pull
\* before any engine create, and a failed full pull returns an error with no
\* engine create made.
C11_AlwaysPullFirst ==
    \A p \in Procs :
        hist[p].pullLabel = "always" =>
            /\ hist[p].creates >= 1 =>
                  (hist[p].fullPulls = 1 /\ hist[p].fullPullErr = "none")
            /\ pc[p] \in {"create1", "pull", "create2"} =>
                  (hist[p].fullPulls = 1 /\ hist[p].fullPullErr = "none")
            /\ hist[p].fullPullErr # "none" =>
                  /\ hist[p].creates = 0
                  /\ Returned(p) /\ ret[p].err = "create"

C11_Witness ==
    \E p, q \in Procs :
        /\ hist[p].pullLabel = "always" /\ hist[p].fullPullErr # "none" /\ Returned(p)
        /\ hist[q].pullLabel = "always" /\ hist[q].creates >= 1

\* C17: when the start fails and the compensating removal fails too, the
\* call returns an error that reports the removal failure and carries the
\* start failure, returns the empty identifier, and runs the unwind.
C17_RemovalFailureReported ==
    \A p \in Procs :
        hist[p].removeErr # "none" =>
            /\ Returned(p)
            /\ ret[p].kind = "err" /\ ret[p].id = NoId
            /\ ret[p].err = "remove"
            /\ hist[p].removeErr \in Range(ret[p].msg)
            /\ hist[p].startErr # "none" /\ hist[p].startErr \in Range(ret[p].msg)
            /\ hist[p].unwinds = 1

C17_Witness ==
    \E p \in Procs :
        hist[p].removeErr # "none" /\ Returned(p) /\ newID[p] # NoId

\* C18: the engine start and the remove are never invoked with the empty
\* container identifier.
C18_NoEmptyIdentifier ==
    \A p \in Procs :
        NoId \notin (Range(hist[p].starts) \cup Range(hist[p].removes))

\* C19: once all calls have finished, every container whose identifier a
\* call returned as started still exists: no other call's compensating
\* removal has deleted it.
C19_ReturnedContainerSurvives ==
    (\A q \in Procs : Returned(q)) =>
        \A p \in Procs : ret[p].kind = "ok" => Exists(ret[p].id)

\* C20: with a non-empty external id createContainer returns an error
\* without an engine create, and ContainerStart fails with no container
\* created and no start or remove call.
C20_ExternalIdNeverCreates ==
    \A p \in Procs :
        hist[p].externalId # "" =>
            /\ hist[p].creates = 0 /\ newID[p] = NoId
            /\ hist[p].starts = <<>> /\ hist[p].removes = <<>>
            /\ \/ pc[p] = "fullpull"
               \/ Returned(p) /\ ret[p].kind = "err" /\ ret[p].err = "create"

C20_Witness ==
    \E p, q \in Procs :
        /\ hist[p].externalId # "" /\ Returned(p) /\ hist[p].fullPulls = 1
           /\ hist[p].fullPullErr = "none"
        /\ hist[q].externalId # "" /\ Returned(q) /\ hist[q].fullPulls = 0

\* indices of the volumes for which the backend call op was made
VolCalled(op) == {e.i : e \in {f \in Range(volLog) : f.op = op}}

\* a volume backend call of the call has failed
VolFailed == \E e \in Range(volLog) : e.err # "none"

\* C16: the volume backend's activation is invoked exactly for the
\* non-managed volumes reported not active, each once, all of it before any
\* engine lookup, create or start; when a check or an activation fails the
\* call returns an error with no create or start made and the unwind run.
C16_ActivationBeforeEngine ==
    /\ [](LET p == VolCaller IN
          /\ \A i \in VolCalled("check") \cup VolCalled("activate") :
                ~IsRancherVolume(volumes[i])
          /\ \A i \in VolCalled("activate") :
                \E e \in Range(volLog) :
                    e.op = "check" /\ e.i = i /\ ~e.ok /\ e.err = "none"
          /\ \A j, k \in 1..Len(volLog) :
                (volLog[j].op = volLog[k].op /\ volLog[j].i = volLog[k].i) => j = k
          /\ (~VolFailed /\ pc[p] \notin {"flex", "spec", "vol", "activate"}
                /\ ret[p].err \notin {"flex", "spec"}) =>
                \A i \in 1..Len(volumes) :
                    /\ ~IsRancherVolume(volumes[i]) => i \in VolCalled("check")
                    /\ (\E e \in Range(volLog) : e.op = "check" /\ e.i = i /\ ~e.ok)
                          => i \in VolCalled("activate")
          /\ VolFailed =>
                /\ Returned(p) /\ ret[p].kind = "err" /\ ret[p].err = "spec"
                /\ hist[p].finds = <<>> /\ hist[p].creates = 0
                /\ hist[p].starts = <<>>
                /\ hist[p].unwinds = 1)
    /\ [][volLog' # volLog =>
            /\ hist[VolCaller].finds = <<>>
            /\ hist[VolCaller].creates = 0
            /\ hist[VolCaller].starts = <<>>]_vars

C16_Witness ==
    /\ Len(volumes) = 2
    /\ IsRancherVolume(volumes[1]) /\ ~IsRancherVolume(volumes[2])
    /\ VolCalled("activate") = {2}
    /\ ret[VolCaller].kind = "ok"

\* C12: two runs of the translation on the same specification produce the
\* same engine configuration, the order of the KEY=VALUE entries included.
C12_TranslationDeterministic ==
    configDone = Runs => config[1] = config[2]

\* the endpoints of the list that have the key k and satisfy Keep, in
\* declaration order
EndpointsFor(k, Keep(_)) ==
    SelectSeq(publicEndpoints,
              LAMBDA e : e.PrivatePort # 0 /\ PortKey(e) = k /\ Keep(e))

HasPublicPort(e) == e.PublicPort # 0

\* C13: every endpoint with a non-zero private port yields the exposed port
\* privatePort/protocol; a host binding is produced for it only if its public
\* port is non-zero; the bindings of one port accumulate in declaration
\* order; endpoints with private port zero yield nothing.
C13_PortsTranslated ==
    portConfig.done =>
        /\ portConfig.ExposedPorts =
              {PortKey(publicEndpoints[i]) :
                  i \in {j \in 1..Len(publicEndpoints) :
                            publicEndpoints[j].PrivatePort # 0}}
        /\ DOMAIN portConfig.PortBindings =
              {k \in portConfig.ExposedPorts : EndpointsFor(k, HasPublicPort) # <<>>}
        /\ \A k \in DOMAIN portConfig.PortBindings :
              /\ Len(portConfig.PortBindings[k]) = Len(EndpointsFor(k, HasPublicPort))
              /\ \A i \in 1..Len(portConfig.PortBindings[k]) :
                    portConfig.PortBindings[k][i] =
                        PortBinding(EndpointsFor(k, HasPublicPort)[i])

\* C14: a declaration whose source and target are both /var/lib/docker
\* yields, when the docker root R differs from /var/lib/docker, exactly the
\* binds R:/var/lib/docker:mode and R:R:mode, and when R is /var/lib/docker
\* the one bind /var/lib/docker:/var/lib/docker:mode; mode is rw when omitted.
C14_DockerRootRebound ==
    \A i \in 1..Len(yields) :
        LET d == dataVolumes[i]
            mode == IF Len(d) >= 3 THEN SubSeq(d, 3, Len(d)) ELSE <<"rw">> IN
        (Len(d) >= 2 /\ d[1] = VarLibDocker /\ d[2] = VarLibDocker) =>
            yields[i] =
                IF dockerRoot # VarLibDocker
                THEN <<<<dockerRoot, VarLibDocker>> \o mode,
                       <<dockerRoot, dockerRoot>> \o mode>>
                ELSE <<<<VarLibDocker, VarLibDocker>> \o mode>>

C14_Witness ==
    /\ bindConfig.done
    /\ dockerRoot = "/mnt/docker"
    /\ Len(dataVolumes) = 2
    /\ dataVolumes[1] = <<VarLibDocker, VarLibDocker>>
    /\ dataVolumes[2] = <<"/data", VarLibDocker, "ro">>
    /\ bindConfig.Binds = <<<<"/mnt/docker", VarLibDocker, "rw">>,
                            <<"/mnt/docker", "/mnt/docker", "rw">>,
                            <<"/data", VarLibDocker, "ro">>>>

\* C15: a container not found by the lookup, an empty identifier and a
\* not-found of the inspection give (false, false) and no error; any other
\* failure of the lookup or of the inspection is returned as an error;
\* otherwise running is Running and not Restarting, so that running and
\* restarting are never both true.
C15_StateClassified ==
    qPc = "done" =>
        /\ ~(qRet.running /\ qRet.restarting)
        /\ (\/ qSeen.findErr = "notfound"
            \/ qSeen.findErr = "none" /\ qCont = NoId
            \/ qSeen.inspectErr = "notfound") =>
              qRet = QueryResult(FALSE, FALSE, "none")
        /\ (qSeen.findErr = "other" \/ qSeen.inspectErr = "other") =>
              qRet.err # "none"
        /\ (qSeen.inspected /\ qSeen.inspectErr = "none") =>
              /\ qRet.err = "none"
              /\ qRet.running = (qSeen.state.Running /\ ~qSeen.state.Restarting)
              /\ qRet.restarting = qSeen.state.Restarting

C15_Witness ==
    /\ qPc = "done"
    /\ qSeen.inspected /\ qSeen.inspectErr = "none"
    /\ qSeen.state.Running /\ qSeen.state.Restarting
    /\ qRet = QueryResult(FALSE, TRUE, "none")

====
